---- MODULE Spec2Model ----
(***************************************************************************)
(* Pass prediction and common-visibility windows of the satellite operator *)
(* toolbox: SatelliteService.find_passes / find_common_windows /           *)
(* get_tle_history (services/satellite_service.py), SatelliteTracker and   *)
(* DataFormatter (app.py) and DataFormatter (utils/formatters.py).         *)
(*                                                                         *)
(* A timestamp string "YYYY-MM-DD HH:MM:SS" is the tuple of its fixed-width *)
(* fields <<day, HH, MM, SS>> (the date part as a day ordinal), so that     *)
(* comparing two strings is comparing the tuples lexicographically.  An     *)
(* instant (datetime / skyfield Time) is a number of seconds.  The maximum  *)
(* elevation of a pass is a number of hundredths of a degree; an altitude   *)
(* the propagator reports, and the threshold, are thousandths of a degree.  *)
(***************************************************************************)
EXTENDS Integers, Sequences, FiniteSets, TLC

VARIABLES
    op,               \* the call that completed last
    passes_station1,  \* find_common_windows: first argument
    passes_station2,  \* find_common_windows: second argument
    common_windows,   \* find_common_windows: the list built by the last call
    min_el,           \* find_passes: the min_elevation argument
    events,           \* find_passes: event tags returned by find_events
    times,            \* find_passes: event instants returned by find_events
    altitudes,        \* find_passes: the altitudes altaz() reported, in order
    local_passes,     \* find_passes: the local list "passes" when the call ended
    passes,           \* find_passes: returned list
    raised,           \* find_passes: exception that reached the caller
    fault,            \* find_passes: the propagator call that raised, if any
    reads,            \* find_passes: indices of events[] the loop evaluated
    log,              \* records written to self.logger
    earlier,          \* find_passes: what the call before the last one ended with
    requests,         \* the locals of each of two concurrent requests
    formatted_gs1,    \* formatter: table rows of the station-1 passes
    formatted_gs2,    \* formatter: table rows of the station-2 passes
    formatted_common, \* formatter: table rows of the common windows
    timeline_data,    \* formatter: records of the timeline
    days_back,        \* get_tle_history: the days_back argument
    database,         \* the TLE records of the satellite in the database
    spacetrack_answer,\* get_tle_history: what fetch_tle_history answered
    spacetrack_calls, \* the arguments of the calls of fetch_tle_history
    tle_history,      \* get_tle_history: returned list
    spacetrack,       \* the SpaceTrackService object and how its last call ended
    tracker_windows,  \* SatelliteTracker.find_common_windows: returned list
    stored,           \* get_tle_history: the database when the call began
    tle_raised,       \* get_tle_history: the exception that left the call
    tle_data,         \* the rows of the table tle_data, in order of insertion
    savers,           \* save_tle_data: the calls in progress, one per request
    todo              \* the TodoService object, its file and its last call

vars == <<op, passes_station1, passes_station2, common_windows,
          min_el, events, times, altitudes, local_passes, passes, raised,
          fault, reads, log, earlier, requests,
          formatted_gs1, formatted_gs2, formatted_common, timeline_data,
          days_back, database, spacetrack_answer, spacetrack_calls, tle_history,
          spacetrack, tracker_windows, stored, tle_raised, tle_data, savers,
          todo>>

cwVars == <<passes_station1, passes_station2, common_windows>>
fpVars == <<min_el, events, times, altitudes, local_passes, passes, raised,
            fault, reads, log>>
fmtVars == <<formatted_gs1, formatted_gs2, formatted_common, timeline_data>>
tleVars == <<days_back, database, spacetrack_answer, spacetrack_calls,
             tle_history, stored, tle_raised>>
eqVars == <<tracker_windows>>
dbVars == <<tle_data, savers>>
todoVars == <<todo>>
svcVars == <<spacetrack, eqVars, dbVars, todoVars>>

----------------------------------------------------------------------------
(* Bounds of the model *)

MaxPasses == 3        \* passes in the two lists handed to find_common_windows
MaxTick == 1          \* instants 0..MaxTick of the passes of such lists and of
                      \* the propagator's events, TimeStep seconds apart
MaxPairTick == 3      \* instants 0..MaxPairTick of the passes of one-pass lists
TimeStep == 30555     \* 8h 29m 15s: crosses minutes, hours and midnight
MaxEvents == 6        \* events the propagator returns to find_passes
MaxDays == 2          \* days_back of get_tle_history is in 1..MaxDays
MaxAuthCalls == 4     \* calls made to one SpaceTrackService object
MaxSaves == 2         \* calls of save_tle_data made by one request
MaxTodoCalls == 3     \* calls made to one TodoService object
MaxTodoId == 2        \* a call names task and subtask ids in 1..MaxTodoId

Elevations == {2500, 4000}   \* sample altitudes, hundredths of a degree

(* Program constants *)
SATELLITE_EVENT_RISE == 0
SATELLITE_EVENT_CULMINATE == 1
SATELLITE_EVENT_SET == 2
PASS_EVENT_SEQUENCE_LENGTH == 3
MIN_ELEVATION == 3000            \* Config.MIN_ELEVATION = 3.0, in thousandths
STATION1_NAME == "Sweden"
STATION2_NAME == "Poland"
MIN_FETCH_DAYS == 60             \* fetch_days = max(days_back, 60)

----------------------------------------------------------------------------
(* Timestamps *)

\* datetime.strptime(s, "%Y-%m-%d %H:%M:%S"): the instant of a timestamp string
strptime(s) == ((s[1] * 24 + s[2]) * 60 + s[3]) * 60 + s[4]

\* strftime / utc_strftime("%Y-%m-%d %H:%M:%S"): the timestamp string of an instant
strftime(t) == << t \div 86400, (t \div 3600) % 24, (t \div 60) % 60, t % 60 >>

\* s1 < s2 as Python compares two strings of the same fixed format
StrLess(s1, s2) ==
    \E k \in 1..4 : /\ s1[k] < s2[k]
                    /\ \A j \in 1..(k - 1) : s1[j] = s2[j]

Instants(n) == { k * TimeStep : k \in 0..n }

\* the instant of the tick in the middle of [r, s]
MidInstant(r, s) == r + ((s - r) \div (2 * TimeStep)) * TimeStep

\* SatellitePass values as find_passes builds them: rise, culmination and set
\* in chronological order, each formatted to one-second resolution
SatellitePass(n) ==
    { [rise_time_utc |-> strftime(rs[1]),
       culmination_time_utc |-> strftime(MidInstant(rs[1], rs[2])),
       set_time_utc |-> strftime(rs[2]),
       max_elevation_degrees |-> e] :
         rs \in { x \in Instants(n) \X Instants(n) : x[1] <= x[2] },
         e \in Elevations }

\* lists of at most n passes, in any order
PassLists(n) == UNION { [1..k -> SatellitePass(MaxTick)] : k \in 0..n }

----------------------------------------------------------------------------
(* SatelliteService.find_common_windows *)

\* Variants of the overlap test: open intervals; only one of the two comparisons
Overlaps_open(rise_time1, set_time1, rise_time2, set_time2) ==
    rise_time1 < set_time2 /\ rise_time2 < set_time1
Overlaps_one_sided(rise_time1, set_time1, rise_time2, set_time2) ==
    rise_time1 <= set_time2
Overlaps_second_only(rise_time1, set_time1, rise_time2, set_time2) ==
    rise_time2 <= set_time1

\* the overlap test of one pair of passes
Overlaps(rise_time1, set_time1, rise_time2, set_time2) ==
    rise_time1 <= set_time2 /\ rise_time2 <= set_time1

max(a, b) == IF a >= b THEN a ELSE b
min(a, b) == IF a <= b THEN a ELSE b

\* Variant: the earlier of the two rises
common_rise_min(rise_time1, rise_time2) == min(rise_time1, rise_time2)
\* Variant: the rise of station 1
common_rise_of_station1(rise_time1, rise_time2) == rise_time1
common_rise(rise_time1, rise_time2) == max(rise_time1, rise_time2)

\* Variant: the set of station 1
common_set_of_station1(set_time1, set_time2) == set_time1
common_set(set_time1, set_time2) == min(set_time1, set_time2)

\* Variant: the maximum elevation of station 1
min_elevation_of_pass1(pass1, pass2) == pass1.max_elevation_degrees
min_elevation(pass1, pass2) ==
    min(pass1.max_elevation_degrees, pass2.max_elevation_degrees)

\* Variant: minutes rounded to the nearest
duration_str_rounded(duration_sec) ==
    [m |-> (duration_sec + 30) \div 60, s |-> duration_sec % 60]

\* f"{duration_min}m {duration_sec_remainder}s": the two numbers of the string
duration_str(duration_sec) ==
    [m |-> duration_sec \div 60, s |-> duration_sec % 60]

\* the dict built for one overlapping pair
common_window(pass1, pass2) ==
    LET rise_time1 == strptime(pass1.rise_time_utc)
        set_time1 == strptime(pass1.set_time_utc)
        rise_time2 == strptime(pass2.rise_time_utc)
        set_time2 == strptime(pass2.set_time_utc)
        crise == common_rise(rise_time1, rise_time2)
        cset == common_set(set_time1, set_time2)
        duration_sec == cset - crise
    IN  [rise_time_utc |-> strftime(crise),
         set_time_utc |-> strftime(cset),
         max_elevation_degrees |-> min_elevation(pass1, pass2),
         duration_seconds |-> duration_sec,
         duration_str |-> duration_str(duration_sec)]

\* the pair passes the "if" of the inner loop body
PairOverlaps(pass1, pass2) ==
    Overlaps(strptime(pass1.rise_time_utc), strptime(pass1.set_time_utc),
             strptime(pass2.rise_time_utc), strptime(pass2.set_time_utc))

\* Variant: the inner loop stops at the first overlapping pass of station 2
RECURSIVE ServiceInnerLoop_first_match(_, _, _)
ServiceInnerLoop_first_match(pass1, passes2, j) ==
    IF j > Len(passes2) THEN <<>>
    ELSE IF PairOverlaps(pass1, passes2[j])
           THEN << common_window(pass1, passes2[j]) >>
           ELSE ServiceInnerLoop_first_match(pass1, passes2, j + 1)

\* the inner loop: "for pass2 in passes_station2", from index j on
RECURSIVE ServiceInnerLoop(_, _, _)
ServiceInnerLoop(pass1, passes2, j) ==
    IF j > Len(passes2) THEN <<>>
    ELSE (IF PairOverlaps(pass1, passes2[j])
            THEN << common_window(pass1, passes2[j]) >>
            ELSE <<>>)
         \o ServiceInnerLoop(pass1, passes2, j + 1)

\* Variant: the windows of the later passes of station 1 come first
RECURSIVE ServiceOuterLoop_reversed(_, _, _)
ServiceOuterLoop_reversed(passes1, passes2, i) ==
    IF i > Len(passes1) THEN <<>>
    ELSE ServiceOuterLoop_reversed(passes1, passes2, i + 1)
         \o ServiceInnerLoop(passes1[i], passes2, 1)

\* the outer loop: "for pass1 in passes_station1", from index i on
RECURSIVE ServiceOuterLoop(_, _, _)
ServiceOuterLoop(passes1, passes2, i) ==
    IF i > Len(passes1) THEN <<>>
    ELSE ServiceInnerLoop(passes1[i], passes2, 1)
         \o ServiceOuterLoop(passes1, passes2, i + 1)

\* Variant: the list of the call before is carried on
initial_common_windows_kept(left) == left

\* "common_windows = []": the list a call starts with, whatever list the call
\* before it on the same service object left
initial_common_windows(left) == <<>>

\* the list the method returns on a service object whose last call left the
\* list "left": the windows in the order they were appended
Service_find_common_windows_on(left, passes1, passes2) ==
    initial_common_windows(left) \o ServiceOuterLoop(passes1, passes2, 1)

\* the list the method returns on a new service object
Service_find_common_windows(passes1, passes2) ==
    Service_find_common_windows_on(<<>>, passes1, passes2)

----------------------------------------------------------------------------
(* SatelliteTracker.find_common_windows (app.py) *)

\* the dict built for one overlapping pair, with the two contributing passes
tracker_common_window(pass1, pass2) ==
    LET rise_time1 == strptime(pass1.rise_time_utc)
        set_time1 == strptime(pass1.set_time_utc)
        rise_time2 == strptime(pass2.rise_time_utc)
        set_time2 == strptime(pass2.set_time_utc)
        crise == common_rise(rise_time1, rise_time2)
        cset == common_set(set_time1, set_time2)
        duration_sec == cset - crise
    IN  [rise_time_utc |-> strftime(crise),
         set_time_utc |-> strftime(cset),
         max_elevation_degrees |-> min_elevation(pass1, pass2),
         duration_seconds |-> duration_sec,
         duration_str |-> duration_str(duration_sec),
         station1_rise |-> pass1.rise_time_utc,
         station1_set |-> pass1.set_time_utc,
         station1_max_el |-> pass1.max_elevation_degrees,
         station2_rise |-> pass2.rise_time_utc,
         station2_set |-> pass2.set_time_utc,
         station2_max_el |-> pass2.max_elevation_degrees]

RECURSIVE TrackerInnerLoop(_, _, _)
TrackerInnerLoop(pass1, passes2, j) ==
    IF j > Len(passes2) THEN <<>>
    ELSE (IF PairOverlaps(pass1, passes2[j])
            THEN << tracker_common_window(pass1, passes2[j]) >>
            ELSE <<>>)
         \o TrackerInnerLoop(pass1, passes2, j + 1)

RECURSIVE TrackerOuterLoop(_, _, _)
TrackerOuterLoop(passes1, passes2, i) ==
    IF i > Len(passes1) THEN <<>>
    ELSE TrackerInnerLoop(passes1[i], passes2, 1)
         \o TrackerOuterLoop(passes1, passes2, i + 1)

\* x put into the sorted list ws behind every element whose key is not greater
RECURSIVE InsertByRise(_, _)
InsertByRise(ws, x) ==
    IF ws = <<>> THEN << x >>
    ELSE IF StrLess(x.rise_time_utc, Head(ws).rise_time_utc)
           THEN << x >> \o ws
           ELSE << Head(ws) >> \o InsertByRise(Tail(ws), x)

\* sorted(ws, key=lambda x: x["rise_time_utc"]): a stable sort on the string
RECURSIVE sorted(_)
sorted(ws) ==
    IF ws = <<>> THEN <<>>
    ELSE InsertByRise(sorted(SubSeq(ws, 1, Len(ws) - 1)), ws[Len(ws)])

Tracker_find_common_windows(passes1, passes2) ==
    sorted(TrackerOuterLoop(passes1, passes2, 1))

----------------------------------------------------------------------------
(* SatelliteService.find_passes / SatelliteTracker.find_passes *)

\* event sequences find_events can return: n tags with n chronological instants
EventTags == {SATELLITE_EVENT_RISE, SATELLITE_EVENT_CULMINATE, SATELLITE_EVENT_SET}

RECURSIVE ChronologicalTimes(_, _)
ChronologicalTimes(n, from) ==
    IF n = 0 THEN { <<>> }
    ELSE UNION { { << t >> \o rest : rest \in ChronologicalTimes(n - 1, t) } :
                   t \in { x \in Instants(MaxTick) : x >= from } }

\* Variant: range(0, len(events), PASS_EVENT_SEQUENCE_LENGTH)
RangeStop_len(n) == n

\* the stop of "range(0, len(events) - 2, PASS_EVENT_SEQUENCE_LENGTH)"
RangeStop(n) == n - 2

\* events[i] of Python (i >= 0) is defined when i < len(events)
InRange(ev, i) == i < Len(ev)

\* the indices of events[] that the condition of the "if" evaluates at offset i,
\* in order: "and" stops at the first comparison that is false or raises
ConditionReads(ev, i) ==
    << i >>
    \o (IF InRange(ev, i) /\ ev[i + 1] = SATELLITE_EVENT_RISE
          THEN << i + 1 >>
               \o (IF InRange(ev, i + 1) /\ ev[i + 2] = SATELLITE_EVENT_CULMINATE
                     THEN << i + 2 >>
                     ELSE <<>>)
          ELSE <<>>)

SeqRange(q) == { q[k] : k \in 1..Len(q) }

\* Variant: a group is accepted on its first tag alone
IsPassGroup_rise_only(ev, i) == ev[i + 1] = SATELLITE_EVENT_RISE

\* the condition of the "if" at offset i, when every index it reads exists
IsPassGroup(ev, i) ==
    /\ ev[i + 1] = SATELLITE_EVENT_RISE
    /\ ev[i + 2] = SATELLITE_EVENT_CULMINATE
    /\ ev[i + 3] = SATELLITE_EVENT_SET

\* thresholds handed to find_passes, thousandths of a degree: the default
\* Config.MIN_ELEVATION (3.0) and one that is no multiple of a hundredth
Thresholds == {MIN_ELEVATION, 3404}

\* how far above the threshold a culmination is: grazing it, or a high pass
AltitudeMargins == {0, 21996}

\* the altitudes (thousandths of a degree) altaz() can report at a culmination
\* that find_events(..., altitude_degrees=m) returned: not below m
CulminationAltitudes(m) == { m + d : d \in AltitudeMargins }

\* the propagator calls that can raise: before the loop, and inside it
PreLoopFaults == {"EarthSatellite", "Topos", "find_events"}
PropagatorFaults == PreLoopFaults \cup {"altaz"}

\* Variant: rounded to whole degrees
round_to_degrees(alt) == ((alt + 500) \div 1000) * 100

\* round(alt.degrees, 2): thousandths to hundredths of a degree, ties to even
round(alt) ==
    LET q == alt \div 10
        r == alt % 10
    IN  IF r < 5 THEN q
        ELSE IF r > 5 THEN q + 1
        ELSE IF q % 2 = 0 THEN q ELSE q + 1

\* Variant: the culmination and set instants in each other's field
pass_data_set_as_culmination(tm, i, alt) ==
    [rise_time_utc |-> strftime(tm[i + 1]),
     culmination_time_utc |-> strftime(tm[i + 3]),
     set_time_utc |-> strftime(tm[i + 2]),
     max_elevation_degrees |-> round(alt)]

\* the SatellitePass built for the group at offset i; alt is the altitude the
\* propagator reports at the culmination instant
pass_data(tm, i, alt) ==
    [rise_time_utc |-> strftime(tm[i + 1]),
     culmination_time_utc |-> strftime(tm[i + 2]),
     set_time_utc |-> strftime(tm[i + 3]),
     max_elevation_degrees |-> round(alt)]

\* Variant: the new pass goes to the front of the list
passes_insert_first(acc, p) == << p >> \o acc

\* passes.append(pass_data)
passes_append(acc, p) == Append(acc, p)

\* Variant: the list of the call before is carried on
initial_passes_kept(left) == left

\* "passes = []": the list a call starts with, whatever list the call before
\* it on the same service object left
initial_passes(left) == <<>>

\* the body of "try" from the loop at offset i on: every way it can end, one
\* for each altitude the propagator may report at the culmination of an
\* accepted group, and one for altaz() raising there.  st is the state of the
\* frame: the list, the exception that ended it, the indices read so far and
\* the altitudes reported so far
RECURSIVE find_passes_loop(_, _, _, _, _)
find_passes_loop(ev, tm, m, i, st) ==
    IF i >= RangeStop(Len(ev))
      THEN { st }
      ELSE LET cr == SeqRange(ConditionReads(ev, i))
               rd == [st EXCEPT !.reads = st.reads \cup cr]
           IN  IF \E k \in cr : ~InRange(ev, k)
                 THEN { [rd EXCEPT !.exc = "IndexError"] }
                 ELSE IF IsPassGroup(ev, i)
                        THEN { [rd EXCEPT !.exc = "altaz"] }
                             \cup
                             UNION { find_passes_loop(ev, tm, m,
                                       i + PASS_EVENT_SEQUENCE_LENGTH,
                                       [rd EXCEPT
                                          !.passes = passes_append(st.passes,
                                                       pass_data(tm, i, alt)),
                                          !.altitudes = Append(st.altitudes, alt)]) :
                                     alt \in CulminationAltitudes(m) }
                        ELSE find_passes_loop(ev, tm, m,
                                 i + PASS_EVENT_SEQUENCE_LENGTH, rd)

\* the frame when the loop is entered
frame(left) ==
    [passes |-> initial_passes(left), exc |-> "none", reads |-> {},
     altitudes |-> <<>>]

\* the frame when a call before the loop raised: "passes" is not bound yet
failed(f) == [passes |-> <<>>, exc |-> f, reads |-> {}, altitudes |-> <<>>]

\* the ways the body of "try" can end once find_events returned (ev, tm)
find_passes(ev, tm, m, left) == find_passes_loop(ev, tm, m, 0, frame(left))

\* Variant: the handler logs and returns what the loop had collected
except_Exception_returns(st) ==
    [passes |-> st.passes, raised |-> "none",
     log |-> << <<"ERROR", "Error finding passes", st.exc>> >>]

\* "except Exception as e: self.logger.error(...); raise"
except_Exception(st) ==
    [passes |-> <<>>, raised |-> st.exc,
     log |-> << <<"ERROR", "Error finding passes", st.exc>> >>]

\* what the caller gets when the body of "try" ended in frame st
find_passes_result(st) ==
    IF st.exc = "none"
      THEN [passes |-> st.passes, raised |-> "none", log |-> <<>>]
      ELSE except_Exception(st)

----------------------------------------------------------------------------
(* DataFormatter (utils/formatters.py) and DataFormatter (app.py) *)

\* strftime("%Y-%m-%d") and strftime("%H:%M:%S") of an instant
strftime_date(t) == << t \div 86400 >>
strftime_time(t) == << (t \div 3600) % 24, (t \div 60) % 60, t % 60 >>

\* f"{x:.2f}" of an elevation of two decimals, and f"{x:.1f}": to the nearest
\* tenth, ties to even
format_2f(x) == x
format_1f(x) ==
    LET q == x \div 10
        r == x % 10
    IN  IF r < 5 THEN q
        ELSE IF r > 5 THEN q + 1
        ELSE IF q % 2 = 0 THEN q ELSE q + 1

\* utils/formatters.py: one table row for each pass, numbered from 1
format_passes_for_display(ps) ==
    [i \in 1..Len(ps) |->
        LET rise_time == strptime(ps[i].rise_time_utc)
            set_time == strptime(ps[i].set_time_utc)
        IN  [Nr |-> i,
             Date |-> strftime_date(rise_time),
             Rise |-> strftime_time(rise_time),
             Set |-> strftime_time(set_time),
             MaxElevation |-> format_2f(ps[i].max_elevation_degrees),
             DurationSeconds |-> set_time - rise_time]]

\* utils/formatters.py: one table row for each window, numbered from 1
format_common_windows_for_display(ws) ==
    [i \in 1..Len(ws) |->
        LET start_time == strptime(ws[i].rise_time_utc)
            end_time == strptime(ws[i].set_time_utc)
        IN  [Nr |-> i,
             Date |-> strftime_date(start_time),
             Start |-> strftime_time(start_time),
             End |-> strftime_time(end_time),
             MaxElevation |-> format_2f(ws[i].max_elevation_degrees),
             Duration |-> ws[i].duration_str,
             DurationSeconds |-> ws[i].duration_seconds]]

\* the timeline record of one pass or window
timeline_record(group, x, content, className) ==
    [group |-> group, start |-> x.rise_time_utc, end |-> x.set_time_utc,
     content |-> content, type |-> "range", className |-> className]

\* Variant: the records of the common windows come first
prepare_timeline_data_windows_first(ps1, ps2, ws, gs1_name, gs2_name) ==
    [k \in 1..Len(ws) |->
        timeline_record("Common", ws[k],
            << format_2f(ws[k].max_elevation_degrees), ws[k].duration_str >>,
            "common-window")]
    \o [k \in 1..Len(ps1) |->
          timeline_record(gs1_name, ps1[k],
              << format_2f(ps1[k].max_elevation_degrees) >>, "gs1-pass")]
    \o [k \in 1..Len(ps2) |->
          timeline_record(gs2_name, ps2[k],
              << format_2f(ps2[k].max_elevation_degrees) >>, "gs2-pass")]

\* utils/formatters.py: the station-1 passes, the station-2 passes, the windows
prepare_timeline_data(ps1, ps2, ws, gs1_name, gs2_name) ==
    [k \in 1..Len(ps1) |->
        timeline_record(gs1_name, ps1[k],
            << format_2f(ps1[k].max_elevation_degrees) >>, "gs1-pass")]
    \o [k \in 1..Len(ps2) |->
          timeline_record(gs2_name, ps2[k],
              << format_2f(ps2[k].max_elevation_degrees) >>, "gs2-pass")]
    \o [k \in 1..Len(ws) |->
          timeline_record("Common", ws[k],
              << format_2f(ws[k].max_elevation_degrees), ws[k].duration_str >>,
              "common-window")]

\* app.py: rise_time.split()[0], and rise_time.split()[1][:-3] ("HH:MM")
split_date(str) == << str[1] >>
split_time_hm(str) == << str[2], str[3] >>

\* app.py: one table row for each pass, numbered from 1
App_format_passes_for_display(ps) ==
    [i \in 1..Len(ps) |->
        [Nr |-> i,
         Date |-> split_date(ps[i].rise_time_utc),
         Rise |-> split_time_hm(ps[i].rise_time_utc),
         Set |-> split_time_hm(ps[i].set_time_utc),
         MaxElevation |-> format_1f(ps[i].max_elevation_degrees)]]

\* app.py: one table row for each window, numbered from 1
App_format_common_windows(ws) ==
    [i \in 1..Len(ws) |->
        [Nr |-> i,
         Date |-> split_date(ws[i].rise_time_utc),
         Start |-> split_time_hm(ws[i].rise_time_utc),
         End |-> split_time_hm(ws[i].set_time_utc),
         MaxElevation |-> format_1f(ws[i].max_elevation_degrees),
         Duration |-> ws[i].duration_str]]

\* app.py: the station-1 passes, the station-2 passes, the windows
App_prepare_timeline_data(ps1, ps2, ws, gs1_name, gs2_name) ==
    [k \in 1..Len(ps1) |->
        timeline_record(gs1_name, ps1[k],
            << format_1f(ps1[k].max_elevation_degrees) >>, "gs1-pass")]
    \o [k \in 1..Len(ps2) |->
          timeline_record(gs2_name, ps2[k],
              << format_1f(ps2[k].max_elevation_degrees) >>, "gs2-pass")]
    \o [k \in 1..Len(ws) |->
          timeline_record("Common", ws[k],
              << format_1f(ws[k].max_elevation_degrees), ws[k].duration_str >>,
              "common-window")]

----------------------------------------------------------------------------
(* SatelliteService.get_tle_history *)

NORAD_ID == "25544"

\* a TLE record is known by the age of its epoch in days; the records there are
Ages == {0, 1, 2, 45}

\* the records of the set S from the newest on ("order by epoch desc")
RECURSIVE newest_first(_)
newest_first(S) ==
    IF S = {} THEN <<>>
    ELSE LET a == CHOOSE x \in S : \A y \in S : x <= y
         IN  << a >> \o newest_first(S \ {a})

\* database.get_tle_history(norad_id, days): the records of db whose epoch is
\* not before the cutoff, newest first
database_get_tle_history(db, days) ==
    newest_first({ a \in db : a <= days })

\* database.save_tle_data for every record of the list, in order: a record
\* the database has is left alone
RECURSIVE save_all(_, _)
save_all(db, history) ==
    IF history = <<>> THEN db
    ELSE save_all(db \cup {Head(history)}, Tail(history))

\* what fetch_tle_history(norad_id, days) can do: raise, or answer with records
\* whose epoch is within the days asked for, newest first
SpaceTrackAnswers(days) ==
    { [raised |-> TRUE, history |-> <<>>] }
    \cup { [raised |-> FALSE, history |-> newest_first(S)] :
             S \in SUBSET { a \in Ages : a <= days } }

fetch_days(days) == max(days, MIN_FETCH_DAYS)

\* Variant: the handler gives up the records read before the fetch
except_fetch_failed_empty(existing_history) ==
    [result |-> <<>>, raised |-> "none"]

\* "except Exception as e" around the fetch: the history read before it, or []
except_fetch_failed(existing_history) ==
    [result |-> IF existing_history # <<>> THEN existing_history ELSE <<>>,
     raised |-> "none"]

\* the call get_tle_history(NORAD_ID, days) on database db when Space-Track,
\* if asked, does "answer": the list returned, the database afterwards and the
\* calls made to Space-Track
get_tle_history(db, days, answer) ==
    LET existing_history == database_get_tle_history(db, days)
        checking == << <<"INFO", "Checking database for TLE history">> >>
        fetching == << <<"INFO", "Fetching from Space-Track">> >>
        call == << << NORAD_ID, fetch_days(days) >> >>
    IN  IF Len(existing_history) >= days
          THEN [result |-> existing_history, database |-> db, calls |-> <<>>,
                raised |-> "none",
                log |-> checking
                        \o << <<"INFO", "Found complete TLE history in database">> >>]
          ELSE IF answer.raised
                 THEN [result |-> except_fetch_failed(existing_history).result,
                       raised |-> except_fetch_failed(existing_history).raised,
                       database |-> db,
                       calls |-> call,
                       log |-> checking \o fetching
                               \o << <<"WARNING", "Failed to fetch from Space-Track">> >>
                               \o (IF existing_history # <<>>
                                      THEN << <<"INFO", "Using partial history from database">> >>
                                      ELSE << <<"WARNING", "No TLE history found">> >>)]
                 ELSE LET saved == save_all(db, answer.history)
                      IN  [result |-> database_get_tle_history(saved, days),
                           database |-> saved,
                           raised |-> "none",
                           calls |-> call,
                           log |-> checking \o fetching
                                   \o << <<"INFO", "Fetched records from Space-Track">>,
                                         <<"INFO", "Final TLE history count">> >>]

----------------------------------------------------------------------------
(* SpaceTrackService.authenticate / _ensure_authenticated *)

\* the object after __init__: session 0 is None, session k > 0 is the k-th
\* requests.Session the object created; "verified" holds the sessions whose
\* verification query succeeded
NewSpaceTrackService(credentials) ==
    [credentials |-> credentials, session |-> 0, created |-> 0,
     verified |-> {}, calls |-> 0, op |-> "__init__", returned |-> "none",
     raised |-> "none", log |-> <<>>]

\* how the login request and the verification query can end
LoginOutcomes == {"ok", "raises"}
TestOutcomes == {"ok", "fails", "raises"}

\* authenticate(): the object afterwards, "returned" being the value returned
authenticate(st, login, test) ==
    IF ~st.credentials
      THEN [st EXCEPT !.returned = "False",
                      !.log = Append(@, "Space-Track credentials not found")]
      ELSE LET new == st.created + 1
               s1 == [st EXCEPT !.session = new, !.created = new]
           IN  IF login = "raises" \/ test = "raises"
                 THEN [s1 EXCEPT !.session = 0,
                                 !.returned = "False",
                                 !.log = Append(@, "Authentication failed")]
                 ELSE IF test = "ok"
                        THEN [s1 EXCEPT
                                !.verified = @ \cup {new},
                                !.returned = "True",
                                !.log = Append(@, "Space-Track authentication successful")]
                        ELSE [s1 EXCEPT
                                !.returned = "False",
                                !.log = Append(@, "Authentication test failed")]

\* _ensure_authenticated(): authenticate when there is no session, then hand
\* out the session or raise
ensure_authenticated(st, login, test) ==
    LET s1 == IF st.session = 0 THEN authenticate(st, login, test) ELSE st
    IN  IF st.session = 0 /\ s1.returned = "False"
          THEN [s1 EXCEPT !.returned = "none", !.raised = "Authentication failed"]
          ELSE IF s1.session = 0
                 THEN [s1 EXCEPT !.returned = "none",
                                 !.raised = "Failed to create session"]
                 ELSE [s1 EXCEPT !.returned = "session", !.raised = "none"]

----------------------------------------------------------------------------
(* State machine: one call of one of the operations *)

\* two requests served at the same time by one SatelliteService
Requests == {1, 2}

\* a request before its first call: it calls find_passes for station 1, then
\* for station 2, then find_common_windows.  "found" keeps what the propagator
\* answered to the request, "overlapped" whether the request took a step while
\* the other one was between its first and its last step
NewRequest ==
    [pc |-> "station1", found |-> <<>>, passes_gs1 |-> <<>>,
     passes_gs2 |-> <<>>, common_windows |-> <<>>, overlapped |-> FALSE]

\* what find_events answers to a request: nothing, or one RISE, CULMINATE, SET
\* group that culminates as it rises
RequestAnswers ==
    { [events |-> <<>>, times |-> <<>>] }
    \cup
    { [events |-> << SATELLITE_EVENT_RISE, SATELLITE_EVENT_CULMINATE,
                    SATELLITE_EVENT_SET >>,
       times |-> << rs[1], rs[1], rs[2] >>] :
        rs \in { x \in Instants(MaxTick) \X Instants(MaxTick) : x[1] <= x[2] } }

InProgress(q) == q.pc \in {"station2", "windows"}

----------------------------------------------------------------------------
(* DatabaseService.save_tle_data *)

\* the requests that save concurrently, and the TLEs they save: a TLE stands
\* for its (norad_id, tle_line1, tle_line2)
Savers == {1, 2}
Tles == {1, 2}

\* a request that is not in save_tle_data: "existing" is the row the query of
\* _tle_exists found (0: None), "tle_model" the row the call added (0: none)
NewSaver ==
    [pc |-> "idle", calls |-> 0, tle |-> 0, existing |-> 0, tle_model |-> 0,
     returned |-> "none"]

\* _tle_exists's query: the id of the first row with the three columns of the
\* TLE, 0 when there is none
first_row(rows, tle) ==
    IF \E k \in 1..Len(rows) : rows[k].tle = tle
      THEN rows[CHOOSE k \in 1..Len(rows) :
                  /\ rows[k].tle = tle
                  /\ \A h \in 1..(k - 1) : rows[h].tle # tle].id
      ELSE 0

\* session.add(tle_model); session.commit(): the table with the new row, whose
\* primary key is a fresh uuid
session_add(rows, tle) == Append(rows, [id |-> Len(rows) + 1, tle |-> tle])

----------------------------------------------------------------------------
(* TodoService *)

\* titles given to create_task, add_subtask and edit_subtask; the description
\* and the two times of a subtask are assigned where its title is
Titles == {"a", "b"}

\* the ids a call can name
TaskIds == 1..MaxTodoId
SubTaskIds == 1..MaxTodoId

Task(id, title, subtasks) == [id |-> id, title |-> title, subtasks |-> subtasks]
SubTask(id, title) == [id |-> id, title |-> title, completed |-> FALSE]

\* the data files a TodoService is built on: no task, or tasks that
\* earlier calls saved
DataFiles ==
    { <<>>,
      << Task(1, "a", << SubTask(1, "a") >>) >>,
      << Task(1, "a", << SubTask(1, "a") >>),
         Task(2, "b", << SubTask(2, "b") >>) >> }

\* TodoService(data_file): load_tasks reads the tasks of the file
NewTodoService(data_file) ==
    [tasks |-> data_file, data_file |-> data_file, save_calls |-> 0,
     calls |-> 0, op |-> "__init__", task_id |-> 0, subtask_id |-> 0,
     returned |-> "none"]

\* how the write of save_tasks can end: an exception is logged and swallowed
SaveOutcomes == {"written", "failed"}

\* save_tasks(): the file holds the tasks, unless the write fails
save_tasks(st, outcome) ==
    [st EXCEPT !.data_file = IF outcome = "written" THEN st.tasks ELSE @,
               !.save_calls = @ + 1]

\* get_task_by_id: the position of the first task with the id, 0 for None
get_task_by_id(tasks, task_id) ==
    IF \E k \in 1..Len(tasks) : tasks[k].id = task_id
      THEN CHOOSE k \in 1..Len(tasks) :
             /\ tasks[k].id = task_id
             /\ \A h \in 1..(k - 1) : tasks[h].id # task_id
      ELSE 0

\* next((st for st in task.subtasks if st.id == subtask_id), None)
get_subtask(subtasks, subtask_id) == get_task_by_id(subtasks, subtask_id)

\* list.remove(x): the list without its first element equal to x
remove(list, x) ==
    LET k == CHOOSE i \in 1..Len(list) :
               list[i] = x /\ \A h \in 1..(i - 1) : list[h] # x
    IN  SubSeq(list, 1, k - 1) \o SubSeq(list, k + 1, Len(list))

\* max(ids, default=0)
max_id(ids) == IF ids = {} THEN 0 ELSE CHOOSE x \in ids : \A y \in ids : y <= x

\* the ids of all subtasks of all tasks
all_subtask_ids(tasks) ==
    UNION { { tasks[k].subtasks[h].id : h \in 1..Len(tasks[k].subtasks) } :
              k \in 1..Len(tasks) }

create_task(st, title, outcome) ==
    LET new_id == max_id({ st.tasks[k].id : k \in 1..Len(st.tasks) }) + 1
        task == Task(new_id, title, <<>>)
    IN  [save_tasks([st EXCEPT !.tasks = Append(@, task)], outcome)
           EXCEPT !.returned = "Task"]

\* Variant: the new id is counted from the subtasks of the task itself
add_subtask_own_ids(st, task_id, title, outcome) ==
    LET t == get_task_by_id(st.tasks, task_id)
    IN  IF t = 0 THEN [st EXCEPT !.returned = "False"]
        ELSE LET own == { st.tasks[t].subtasks[h].id :
                            h \in 1..Len(st.tasks[t].subtasks) }
                 subtask == SubTask(max_id(own \cup {0}) + 1, title)
             IN  [save_tasks([st EXCEPT !.tasks[t].subtasks = Append(@, subtask)],
                             outcome)
                    EXCEPT !.returned = "True"]

add_subtask(st, task_id, title, outcome) ==
    LET t == get_task_by_id(st.tasks, task_id)
    IN  IF t = 0 THEN [st EXCEPT !.returned = "False"]
        ELSE LET subtask ==
                   SubTask(max_id(all_subtask_ids(st.tasks) \cup {0}) + 1, title)
             IN  [save_tasks([st EXCEPT !.tasks[t].subtasks = Append(@, subtask)],
                             outcome)
                    EXCEPT !.returned = "True"]

\* Variant: the file is written before the subtask is looked up
toggle_subtask_completion_saves_first(st, task_id, subtask_id, outcome) ==
    LET t == get_task_by_id(st.tasks, task_id)
    IN  IF t = 0 THEN [st EXCEPT !.returned = "False"]
        ELSE LET u == get_subtask(st.tasks[t].subtasks, subtask_id)
             IN  IF u = 0
                   THEN [save_tasks(st, outcome) EXCEPT !.returned = "False"]
                   ELSE [save_tasks([st EXCEPT !.tasks[t].subtasks[u].completed = ~@],
                                    outcome)
                           EXCEPT !.returned = "True"]

toggle_subtask_completion(st, task_id, subtask_id, outcome) ==
    LET t == get_task_by_id(st.tasks, task_id)
    IN  IF t = 0 THEN [st EXCEPT !.returned = "False"]
        ELSE LET u == get_subtask(st.tasks[t].subtasks, subtask_id)
             IN  IF u = 0 THEN [st EXCEPT !.returned = "False"]
                 ELSE [save_tasks([st EXCEPT !.tasks[t].subtasks[u].completed = ~@],
                                  outcome)
                         EXCEPT !.returned = "True"]

delete_task(st, task_id, outcome) ==
    LET t == get_task_by_id(st.tasks, task_id)
    IN  IF t = 0 THEN [st EXCEPT !.returned = "False"]
        ELSE [save_tasks([st EXCEPT !.tasks = remove(@, st.tasks[t])], outcome)
                EXCEPT !.returned = "True"]

delete_subtask(st, task_id, subtask_id, outcome) ==
    LET t == get_task_by_id(st.tasks, task_id)
    IN  IF t = 0 THEN [st EXCEPT !.returned = "False"]
        ELSE LET u == get_subtask(st.tasks[t].subtasks, subtask_id)
             IN  IF u = 0 THEN [st EXCEPT !.returned = "False"]
                 ELSE [save_tasks([st EXCEPT !.tasks[t].subtasks =
                                      remove(@, st.tasks[t].subtasks[u])],
                                  outcome)
                         EXCEPT !.returned = "True"]

edit_subtask(st, task_id, subtask_id, title, outcome) ==
    LET t == get_task_by_id(st.tasks, task_id)
    IN  IF t = 0 THEN [st EXCEPT !.returned = "False"]
        ELSE LET u == get_subtask(st.tasks[t].subtasks, subtask_id)
             IN  IF u = 0 THEN [st EXCEPT !.returned = "False"]
                 ELSE [save_tasks([st EXCEPT !.tasks[t].subtasks[u].title = title],
                                  outcome)
                         EXCEPT !.returned = "True"]

Init ==
    /\ op = "none"
    /\ passes_station1 = <<>>
    /\ passes_station2 = <<>>
    /\ common_windows = <<>>
    /\ min_el = 0
    /\ events = <<>>
    /\ times = <<>>
    /\ altitudes = <<>>
    /\ local_passes = <<>>
    /\ passes = <<>>
    /\ raised = "none"
    /\ fault = "none"
    /\ reads = {}
    /\ log = <<>>
    /\ earlier = [passes |-> <<>>, raised |-> "none"]
    /\ requests = [r \in Requests |-> NewRequest]
    /\ formatted_gs1 = <<>>
    /\ formatted_gs2 = <<>>
    /\ formatted_common = <<>>
    /\ timeline_data = <<>>
    /\ days_back = 0
    /\ database = {}
    /\ spacetrack_answer = [raised |-> FALSE, history |-> <<>>]
    /\ spacetrack_calls = <<>>
    /\ tle_history = <<>>
    /\ spacetrack = NewSpaceTrackService(TRUE)
    /\ tracker_windows = <<>>
    /\ stored = {}
    /\ tle_raised = "none"
    /\ tle_data = <<>>
    /\ savers = [s \in Savers |-> NewSaver]
    /\ todo = NewTodoService(<<>>)

\* SatelliteService.find_common_windows(A, B) returns
ServiceCall(A, B) ==
    /\ op' = "service_find_common_windows"
    /\ passes_station1' = A
    /\ passes_station2' = B
    /\ common_windows' = Service_find_common_windows(A, B)

\* a call of SatelliteService.find_common_windows: two lists of passes, or two
\* one-pass lists of passes on the finer grid of instants
ServiceFindCommonWindows ==
    /\ op = "none"
    /\ \/ \E A \in PassLists(MaxPasses) :
            \E B \in PassLists(MaxPasses - Len(A)) : ServiceCall(A, B)
       \/ \E p1 \in SatellitePass(MaxPairTick), p2 \in SatellitePass(MaxPairTick) :
            ServiceCall(<< p1 >>, << p2 >>)
    /\ UNCHANGED <<fpVars, earlier, requests, fmtVars, tleVars, svcVars>>

\* SatelliteTracker.find_common_windows(A, B) returns
TrackerCall(A, B) ==
    /\ op' = "tracker_find_common_windows"
    /\ passes_station1' = A
    /\ passes_station2' = B
    /\ common_windows' = Tracker_find_common_windows(A, B)

\* a call of SatelliteTracker.find_common_windows, on the same inputs
TrackerFindCommonWindows ==
    /\ op = "none"
    /\ \/ \E A \in PassLists(MaxPasses) :
            \E B \in PassLists(MaxPasses - Len(A)) : TrackerCall(A, B)
       \/ \E p1 \in SatellitePass(MaxPairTick), p2 \in SatellitePass(MaxPairTick) :
            TrackerCall(<< p1 >>, << p2 >>)
    /\ UNCHANGED <<fpVars, earlier, requests, fmtVars, tleVars, svcVars>>

\* both find_common_windows are called on the same two lists
BothCall(A, B) ==
    /\ op' = "both_find_common_windows"
    /\ passes_station1' = A
    /\ passes_station2' = B
    /\ common_windows' = Service_find_common_windows(A, B)
    /\ tracker_windows' = Tracker_find_common_windows(A, B)

BothFindCommonWindows ==
    /\ op = "none"
    /\ \/ \E A \in PassLists(MaxPasses) :
            \E B \in PassLists(MaxPasses - Len(A)) : BothCall(A, B)
       \/ \E p1 \in SatellitePass(MaxPairTick), p2 \in SatellitePass(MaxPairTick) :
            BothCall(<< p1 >>, << p2 >>)
    /\ UNCHANGED <<fpVars, earlier, requests, fmtVars, tleVars, spacetrack,
                   dbVars, todoVars>>

\* find_passes(…, min_elevation = m) ends: find_events had returned (ev, tm),
\* and the body of "try" ended in frame st
FindPassesCall(m, ev, tm, st) ==
    LET r == find_passes_result(st)
    IN  /\ min_el' = m
        /\ events' = ev
        /\ times' = tm
        /\ altitudes' = st.altitudes
        /\ local_passes' = st.passes
        /\ reads' = st.reads
        /\ fault' = IF st.exc \in PropagatorFaults THEN st.exc ELSE "none"
        /\ passes' = r.passes
        /\ raised' = r.raised
        /\ log' = log \o r.log

\* a call of SatelliteService.find_passes: the propagator raises before the
\* loop, or answers find_events with n events
FindPasses ==
    /\ op = "none"
    /\ op' = "find_passes"
    /\ \E m \in Thresholds :
         \/ \E f \in PreLoopFaults : FindPassesCall(m, <<>>, <<>>, failed(f))
         \/ \E n \in 0..MaxEvents :
              \E ev \in [1..n -> EventTags], tm \in ChronologicalTimes(n, 0) :
                \E st \in find_passes(ev, tm, m, local_passes) :
                    FindPassesCall(m, ev, tm, st)
    /\ UNCHANGED <<cwVars, earlier, requests, fmtVars, tleVars, svcVars>>

\* the same call of find_passes once more on the same service object: same
\* arguments, and a propagator that answers every call as it did before
FindPassesAgain ==
    /\ op = "find_passes"
    /\ op' = "find_passes_again"
    /\ earlier' = [passes |-> passes, raised |-> raised]
    /\ IF fault \in PreLoopFaults
         THEN FindPassesCall(min_el, <<>>, <<>>, failed(fault))
         ELSE \E st \in find_passes(events, times, min_el, local_passes) :
                /\ st.altitudes = altitudes
                /\ (st.exc = "altaz") = (fault = "altaz")
                /\ FindPassesCall(min_el, events, times, st)
    /\ UNCHANGED <<cwVars, requests, fmtVars, tleVars, svcVars>>

\* request r calls find_passes for its next station; the propagator answers
\* and raises nothing
RequestFindPasses(r) ==
    LET q == requests[r]
    IN  /\ op \in {"none", "requests"}
        /\ q.pc \in {"station1", "station2"}
        /\ op' = "requests"
        /\ \E a \in RequestAnswers :
             \E st \in find_passes(a.events, a.times, MIN_ELEVATION, local_passes) :
               /\ st.exc = "none"
               /\ local_passes' = st.passes
               /\ requests' =
                    [requests EXCEPT ![r] =
                       [q EXCEPT
                          !.pc = IF q.pc = "station1" THEN "station2" ELSE "windows",
                          !.found = Append(q.found,
                                      [events |-> a.events, times |-> a.times,
                                       altitudes |-> st.altitudes]),
                          !.passes_gs1 = IF q.pc = "station1"
                                           THEN find_passes_result(st).passes ELSE @,
                          !.passes_gs2 = IF q.pc = "station2"
                                           THEN find_passes_result(st).passes ELSE @,
                          !.overlapped = @ \/ \E o \in Requests \ {r} :
                                                 InProgress(requests[o])]]
        /\ UNCHANGED <<cwVars, min_el, events, times, altitudes, passes, raised,
                       fault, reads, log, earlier, fmtVars, tleVars, svcVars>>

\* request r calls find_common_windows on its two lists
RequestFindCommonWindows(r) ==
    LET q == requests[r]
        ws == Service_find_common_windows_on(common_windows,
                                             q.passes_gs1, q.passes_gs2)
    IN  /\ op \in {"none", "requests"}
        /\ q.pc = "windows"
        /\ op' = "requests"
        /\ common_windows' = ws
        /\ requests' =
             [requests EXCEPT ![r] =
                [q EXCEPT !.pc = "done",
                          !.common_windows = ws,
                          !.overlapped = @ \/ \E o \in Requests \ {r} :
                                                 InProgress(requests[o])]]
        /\ UNCHANGED <<passes_station1, passes_station2, fpVars, earlier, fmtVars, tleVars, svcVars>>

\* the four formatter calls of utils/formatters.py on two lists of passes and
\* the windows SatelliteService.find_common_windows gives for them
FormatForDisplay ==
    /\ op = "none"
    /\ op' = "format_for_display"
    /\ \E A \in PassLists(MaxPasses) :
         \E B \in PassLists(MaxPasses - Len(A)) :
           LET ws == Service_find_common_windows(A, B)
           IN  /\ passes_station1' = A
               /\ passes_station2' = B
               /\ common_windows' = ws
               /\ formatted_gs1' = format_passes_for_display(A)
               /\ formatted_gs2' = format_passes_for_display(B)
               /\ formatted_common' = format_common_windows_for_display(ws)
               /\ timeline_data' = prepare_timeline_data(A, B, ws,
                                       STATION1_NAME, STATION2_NAME)
    /\ UNCHANGED <<fpVars, earlier, requests, tleVars, svcVars>>

\* the four formatter calls of the route of app.py on two lists of passes and
\* the windows SatelliteTracker.find_common_windows gives for them
AppFormatForDisplay ==
    /\ op = "none"
    /\ op' = "app_format_for_display"
    /\ \E A \in PassLists(MaxPasses) :
         \E B \in PassLists(MaxPasses - Len(A)) :
           LET ws == Tracker_find_common_windows(A, B)
           IN  /\ passes_station1' = A
               /\ passes_station2' = B
               /\ common_windows' = ws
               /\ formatted_gs1' = App_format_passes_for_display(A)
               /\ formatted_gs2' = App_format_passes_for_display(B)
               /\ formatted_common' = App_format_common_windows(ws)
               /\ timeline_data' = App_prepare_timeline_data(A, B, ws,
                                       STATION1_NAME, STATION2_NAME)
    /\ UNCHANGED <<fpVars, earlier, requests, tleVars, svcVars>>

\* a call of SatelliteService.get_tle_history(NORAD_ID, days) on a database
\* that holds any of the records
GetTleHistory ==
    /\ op = "none"
    /\ op' = "get_tle_history"
    /\ \E days \in 1..MaxDays, db \in SUBSET Ages :
         \E answer \in SpaceTrackAnswers(fetch_days(days)) :
           LET r == get_tle_history(db, days, answer)
           IN  /\ days_back' = days
               /\ spacetrack_answer' = answer
               /\ database' = r.database
               /\ stored' = db
               /\ tle_raised' = r.raised
               /\ spacetrack_calls' = r.calls
               /\ tle_history' = r.result
               /\ log' = log \o r.log
    /\ UNCHANGED <<cwVars, min_el, events, times, altitudes, local_passes,
                   passes, raised, fault, reads, earlier, requests, fmtVars,
                   svcVars>>

\* SpaceTrackService(config): with or without credentials in the config
SpaceTrackInit ==
    /\ op = "none"
    /\ op' = "spacetrack"
    /\ \E credentials \in BOOLEAN :
         spacetrack' = NewSpaceTrackService(credentials)
    /\ UNCHANGED <<cwVars, fpVars, earlier, requests, fmtVars, tleVars,
                   eqVars, dbVars, todoVars>>

\* a call of authenticate() on the object
Authenticate ==
    /\ op = "spacetrack"
    /\ spacetrack.calls < MaxAuthCalls
    /\ \E login \in LoginOutcomes, test \in TestOutcomes :
         spacetrack' =
             [authenticate([spacetrack EXCEPT !.raised = "none"], login, test)
                EXCEPT !.calls = spacetrack.calls + 1, !.op = "authenticate"]
    /\ UNCHANGED <<op, cwVars, fpVars, earlier, requests, fmtVars, tleVars,
                   eqVars, dbVars, todoVars>>

\* a call of _ensure_authenticated() on the object
EnsureAuthenticated ==
    /\ op = "spacetrack"
    /\ spacetrack.calls < MaxAuthCalls
    /\ \E login \in LoginOutcomes, test \in TestOutcomes :
         spacetrack' =
             [ensure_authenticated(spacetrack, login, test)
                EXCEPT !.calls = spacetrack.calls + 1,
                       !.op = "ensure_authenticated"]
    /\ UNCHANGED <<op, cwVars, fpVars, earlier, requests, fmtVars, tleVars,
                   eqVars, dbVars, todoVars>>

\* save_tle_data(tle) is called in request s: the session is opened and the
\* format validated; a TLE with too few fields returns False at once
SaveTleData(s) ==
    /\ op \in {"none", "save_tle_data"}
    /\ savers[s].pc \in {"idle", "done"}
    /\ savers[s].calls < MaxSaves
    /\ op' = "save_tle_data"
    /\ \E tle \in Tles, valid \in BOOLEAN :
         savers' = [savers EXCEPT ![s] =
                      [pc |-> IF valid THEN "tle_exists" ELSE "done",
                       calls |-> savers[s].calls + 1,
                       tle |-> tle, existing |-> 0, tle_model |-> 0,
                       returned |-> IF valid THEN "none" ELSE "False"]]
    /\ UNCHANGED <<cwVars, fpVars, earlier, requests, fmtVars, tleVars,
                   spacetrack, eqVars, tle_data, todoVars>>

\* request s runs the query of _tle_exists in its session: a row found makes
\* the call return True
TleExists(s) ==
    /\ op = "save_tle_data"
    /\ savers[s].pc = "tle_exists"
    /\ LET existing == first_row(tle_data, savers[s].tle)
       IN  savers' = [savers EXCEPT ![s].existing = existing,
                                    ![s].pc = IF existing # 0 THEN "done"
                                                              ELSE "commit",
                                    ![s].returned = IF existing # 0 THEN "True"
                                                                    ELSE "none"]
    /\ UNCHANGED <<op, cwVars, fpVars, earlier, requests, fmtVars, tleVars,
                   spacetrack, eqVars, tle_data, todoVars>>

\* request s adds its row and commits, and returns True; or the commit raises
\* and the call returns False
Commit(s) ==
    /\ op = "save_tle_data"
    /\ savers[s].pc = "commit"
    /\ \/ /\ tle_data' = session_add(tle_data, savers[s].tle)
          /\ savers' = [savers EXCEPT ![s].pc = "done",
                                       ![s].tle_model = Len(tle_data) + 1,
                                       ![s].returned = "True"]
       \/ /\ tle_data' = tle_data
          /\ savers' = [savers EXCEPT ![s].pc = "done",
                                       ![s].returned = "False"]
    /\ UNCHANGED <<op, cwVars, fpVars, earlier, requests, fmtVars, tleVars,
                   spacetrack, eqVars, todoVars>>

\* TodoService(data_file) on one of the data files
TodoServiceInit ==
    /\ op = "none"
    /\ op' = "todo"
    /\ \E data_file \in DataFiles : todo' = NewTodoService(data_file)
    /\ UNCHANGED <<cwVars, fpVars, earlier, requests, fmtVars, tleVars,
                   spacetrack, eqVars, dbVars>>

\* the call "name" of the TodoService object ends in st
TodoCall(name, task_id, subtask_id, st) ==
    /\ todo' = [st EXCEPT !.op = name, !.task_id = task_id,
                           !.subtask_id = subtask_id, !.calls = todo.calls + 1]
    /\ UNCHANGED <<op, cwVars, fpVars, earlier, requests, fmtVars, tleVars,
                   spacetrack, eqVars, dbVars>>

TodoReady == op = "todo" /\ todo.calls < MaxTodoCalls

CreateTask ==
    /\ TodoReady
    /\ \E title \in Titles, outcome \in SaveOutcomes :
         TodoCall("create_task", 0, 0, create_task(todo, title, outcome))

AddSubtask ==
    /\ TodoReady
    /\ \E task_id \in TaskIds, title \in Titles, outcome \in SaveOutcomes :
         TodoCall("add_subtask", task_id, 0,
                  add_subtask(todo, task_id, title, outcome))

ToggleSubtaskCompletion ==
    /\ TodoReady
    /\ \E task_id \in TaskIds, subtask_id \in SubTaskIds, outcome \in SaveOutcomes :
         TodoCall("toggle_subtask_completion", task_id, subtask_id,
                  toggle_subtask_completion(todo, task_id, subtask_id, outcome))

DeleteTask ==
    /\ TodoReady
    /\ \E task_id \in TaskIds, outcome \in SaveOutcomes :
         TodoCall("delete_task", task_id, 0, delete_task(todo, task_id, outcome))

DeleteSubtask ==
    /\ TodoReady
    /\ \E task_id \in TaskIds, subtask_id \in SubTaskIds, outcome \in SaveOutcomes :
         TodoCall("delete_subtask", task_id, subtask_id,
                  delete_subtask(todo, task_id, subtask_id, outcome))

EditSubtask ==
    /\ TodoReady
    /\ \E task_id \in TaskIds, subtask_id \in SubTaskIds, title \in Titles,
          outcome \in SaveOutcomes :
         TodoCall("edit_subtask", task_id, subtask_id,
                  edit_subtask(todo, task_id, subtask_id, title, outcome))

Next ==
    \/ ServiceFindCommonWindows
    \/ TrackerFindCommonWindows
    \/ FindPasses
    \/ FindPassesAgain
    \/ \E r \in Requests : RequestFindPasses(r)
    \/ \E r \in Requests : RequestFindCommonWindows(r)
    \/ FormatForDisplay
    \/ AppFormatForDisplay
    \/ GetTleHistory
    \/ SpaceTrackInit
    \/ Authenticate
    \/ EnsureAuthenticated
    \/ BothFindCommonWindows
    \/ \E s \in Savers : SaveTleData(s)
    \/ \E s \in Savers : TleExists(s)
    \/ \E s \in Savers : Commit(s)
    \/ TodoServiceInit
    \/ CreateTask
    \/ AddSubtask
    \/ ToggleSubtaskCompletion
    \/ DeleteTask
    \/ DeleteSubtask
    \/ EditSubtask

Spec == Init /\ [][Next]_vars

\* the operations one at a time
SpecService == Init /\ [][ServiceFindCommonWindows]_vars
SpecTracker == Init /\ [][TrackerFindCommonWindows]_vars
SpecCommonWindows ==
    Init /\ [][ServiceFindCommonWindows \/ TrackerFindCommonWindows]_vars
SpecFindPasses == Init /\ [][FindPasses]_vars
SpecFindPassesTwice == Init /\ [][FindPasses \/ FindPassesAgain]_vars
SpecFormatters == Init /\ [][FormatForDisplay \/ AppFormatForDisplay]_vars
SpecTleHistory == Init /\ [][GetTleHistory]_vars
SpecSpaceTrack ==
    Init /\ [][SpaceTrackInit \/ Authenticate \/ EnsureAuthenticated]_vars
SpecBoth == Init /\ [][BothFindCommonWindows]_vars
SpecSaveTle ==
    Init /\ [][\E s \in Savers : SaveTleData(s) \/ TleExists(s) \/ Commit(s)]_vars
SpecTodo ==
    Init /\ [][TodoServiceInit \/ CreateTask \/ AddSubtask
                  \/ ToggleSubtaskCompletion \/ DeleteTask \/ DeleteSubtask
                  \/ EditSubtask]_vars
SpecRequests ==
    Init /\ [][\E r \in Requests : RequestFindPasses(r)
                                   \/ RequestFindCommonWindows(r)]_vars

----------------------------------------------------------------------------
(* Vocabulary of the properties: timestamps are compared as the strings they *)
(* are, and converted to seconds field by field                              *)

StrLE(s1, s2) == s1 = s2 \/ StrLess(s1, s2)
StrMax(s1, s2) == IF StrLess(s1, s2) THEN s2 ELSE s1
StrMin(s1, s2) == IF StrLess(s1, s2) THEN s1 ELSE s2
Seconds(s) == s[1] * 86400 + s[2] * 3600 + s[3] * 60 + s[4]

ServiceReturned == op = "service_find_common_windows"
TrackerReturned == op = "tracker_find_common_windows"
FindPassesReturned == op = "find_passes"

\* no call to the propagator raised
PropagatorAnswered == fault = "none"

\* the closed intervals of the two passes have an instant in common
IntervalsMeet(pA, pB) ==
    /\ StrLE(pA.rise_time_utc, pB.set_time_utc)
    /\ StrLE(pB.rise_time_utc, pA.set_time_utc)

\* the pairs <<i, j>> of the cross product whose intervals meet
OverlappingPairs ==
    { ij \in (1..Len(passes_station1)) \X (1..Len(passes_station2)) :
        IntervalsMeet(passes_station1[ij[1]], passes_station2[ij[2]]) }

\* <<rise, set, elevation summary>> of a window, and of the pair <<i, j>>
WindowTriple(w) == << w.rise_time_utc, w.set_time_utc, w.max_elevation_degrees >>
PairTriple(pA, pB) ==
    << StrMax(pA.rise_time_utc, pB.rise_time_utc),
       StrMin(pA.set_time_utc, pB.set_time_utc),
       IF pA.max_elevation_degrees <= pB.max_elevation_degrees
         THEN pA.max_elevation_degrees ELSE pB.max_elevation_degrees >>
TripleOfPair(ij) == PairTriple(passes_station1[ij[1]], passes_station2[ij[2]])

\* the position of the pair ij among the pairs ovl, in the order of the nested
\* iteration (station 1 outside, station 2 inside)
PairRank(ovl, ij) ==
    1 + Cardinality({ q \in ovl :
                        q[1] < ij[1] \/ (q[1] = ij[1] /\ q[2] < ij[2]) })

\* how many windows of ws have the triple t
Count(ws, t) == Cardinality({ k \in 1..Len(ws) : WindowTriple(ws[k]) = t })

\* C1: both find_common_windows return as many windows as there are pairs of
\* the cross product whose closed intervals meet, and every such pair accounts
\* for one window of its own: each <<rise, set, elevation>> occurs among the
\* windows as often as among the overlapping pairs (nothing merged, nothing
\* dropped, nothing added).
C1_OneWindowPerOverlappingPair ==
    (ServiceReturned \/ TrackerReturned) =>
        LET ovl == OverlappingPairs
        IN  /\ Len(common_windows) = Cardinality(ovl)
            /\ \A ij \in ovl :
                 Count(common_windows, TripleOfPair(ij))
                   = Cardinality({ q \in ovl : TripleOfPair(q) = TripleOfPair(ij) })
            /\ \A k \in 1..Len(common_windows) :
                 \E ij \in ovl :
                    TripleOfPair(ij) = WindowTriple(common_windows[k])

\* two passes of station 1 overlap the one pass of station 2 in the same
\* sub-interval: two equal windows are returned
C1_Witness ==
    /\ ServiceReturned
    /\ Len(passes_station1) = 2
    /\ Len(passes_station2) = 1
    /\ Len(common_windows) = 2
    /\ WindowTriple(common_windows[1]) = WindowTriple(common_windows[2])

\* C2: the list SatelliteService.find_common_windows returns is in ascending
\* order of common rise time.
C2_ServiceSortedByRise ==
    ServiceReturned =>
        \A k \in 1..(Len(common_windows) - 1) :
            StrLE(common_windows[k].rise_time_utc,
                  common_windows[k + 1].rise_time_utc)

\* C3: the k-th window returned by SatelliteService.find_common_windows comes
\* from the k-th overlapping pair (pA, pB); its rise is the later of the two
\* rises and its set the earlier of the two sets.
C3_RiseIsMaxSetIsMin ==
    ServiceReturned =>
        LET ovl == OverlappingPairs
        IN  /\ Len(common_windows) = Cardinality(ovl)
            /\ \A ij \in ovl :
                 LET pA == passes_station1[ij[1]]
                     pB == passes_station2[ij[2]]
                     w == common_windows[PairRank(ovl, ij)]
                 IN  /\ w.rise_time_utc
                          = StrMax(pA.rise_time_utc, pB.rise_time_utc)
                     /\ w.set_time_utc
                          = StrMin(pA.set_time_utc, pB.set_time_utc)

\* a partial overlap: the window rises with station 2 and sets with station 1
C3_Witness ==
    /\ ServiceReturned
    /\ Len(common_windows) = 1
    /\ StrLess(passes_station1[1].rise_time_utc, passes_station2[1].rise_time_utc)
    /\ StrLess(passes_station2[1].rise_time_utc, passes_station1[1].set_time_utc)
    /\ StrLess(passes_station1[1].set_time_utc, passes_station2[1].set_time_utc)
    /\ common_windows[1].rise_time_utc = passes_station2[1].rise_time_utc
    /\ common_windows[1].set_time_utc = passes_station1[1].set_time_utc

\* C4: the elevation of the k-th window is the smaller of the maximum
\* elevations of the two whole passes of the k-th overlapping pair.
C4_ElevationIsMinOfPassMaxima ==
    ServiceReturned =>
        LET ovl == OverlappingPairs
        IN  /\ Len(common_windows) = Cardinality(ovl)
            /\ \A ij \in ovl :
                 LET eA == passes_station1[ij[1]].max_elevation_degrees
                     eB == passes_station2[ij[2]].max_elevation_degrees
                     w == common_windows[PairRank(ovl, ij)]
                 IN  /\ w.max_elevation_degrees \in {eA, eB}
                     /\ w.max_elevation_degrees <= eA
                     /\ w.max_elevation_degrees <= eB

\* the window is a proper part of both passes and station 2 has the lower maximum
C4_Witness ==
    /\ ServiceReturned
    /\ Len(common_windows) = 1
    /\ StrLess(passes_station1[1].rise_time_utc, common_windows[1].rise_time_utc)
    /\ StrLess(common_windows[1].set_time_utc, passes_station2[1].set_time_utc)
    /\ passes_station2[1].max_elevation_degrees
         < passes_station1[1].max_elevation_degrees
    /\ common_windows[1].max_elevation_degrees
         = passes_station2[1].max_elevation_degrees

\* the pair only touches: one pass sets at the instant the other rises
Touching(pA, pB) ==
    \/ pA.set_time_utc = pB.rise_time_utc
    \/ pB.set_time_utc = pA.rise_time_utc

\* C5: a pair of passes that touch is an overlapping pair: it has its window,
\* which rises and sets at the same instant and lasts 0 seconds, "0m 0s".
C5_TouchingPairsOverlap ==
    ServiceReturned =>
        LET ovl == OverlappingPairs
        IN  \A ij \in (1..Len(passes_station1)) \X (1..Len(passes_station2)) :
              Touching(passes_station1[ij[1]], passes_station2[ij[2]]) =>
                /\ ij \in ovl
                /\ PairRank(ovl, ij) <= Len(common_windows)
                /\ LET w == common_windows[PairRank(ovl, ij)]
                   IN  /\ w.rise_time_utc = w.set_time_utc
                       /\ w.duration_seconds = 0
                       /\ w.duration_str = [m |-> 0, s |-> 0]

\* station 1 sets when station 2 rises, and both passes last
C5_Witness ==
    /\ ServiceReturned
    /\ Len(passes_station1) = 1
    /\ Len(passes_station2) = 1
    /\ passes_station1[1].set_time_utc = passes_station2[1].rise_time_utc
    /\ StrLess(passes_station1[1].rise_time_utc, passes_station1[1].set_time_utc)
    /\ StrLess(passes_station2[1].rise_time_utc, passes_station2[1].set_time_utc)
    /\ Len(common_windows) = 1
    /\ common_windows[1].duration_seconds = 0

\* C6: duration_seconds of a window is the number of seconds from its rise to
\* its set, and duration_str shows m = duration_seconds div 60 minutes and
\* s = duration_seconds mod 60 seconds: 60 * m + s = duration_seconds, 0 <= s < 60.
C6_DurationIsSetMinusRise ==
    ServiceReturned =>
        \A k \in 1..Len(common_windows) :
            LET w == common_windows[k]
            IN  /\ w.duration_seconds
                     = Seconds(w.set_time_utc) - Seconds(w.rise_time_utc)
                /\ 60 * w.duration_str.m + w.duration_str.s = w.duration_seconds
                /\ w.duration_str.s >= 0
                /\ w.duration_str.s < 60
                /\ w.duration_str.m >= 0

\* a window of more than an hour with a remainder of seconds
C6_Witness ==
    /\ ServiceReturned
    /\ Len(common_windows) = 1
    /\ common_windows[1].duration_str.m > 60
    /\ common_windows[1].duration_str.s > 0

\* C9: find_common_windows(B, A) returns the same <<rise, set, elevation>>
\* triples as find_common_windows(A, B), each as many times.
C9_SymmetricInItsArguments ==
    ServiceReturned =>
        LET swapped == Service_find_common_windows(passes_station2, passes_station1)
        IN  /\ Len(swapped) = Len(common_windows)
            /\ \A k \in 1..Len(common_windows) :
                 Count(swapped, WindowTriple(common_windows[k]))
                   = Count(common_windows, WindowTriple(common_windows[k]))

\* lists of different lengths and two windows that differ in rise and elevation
C9_Witness ==
    /\ ServiceReturned
    /\ Len(passes_station1) = 2
    /\ Len(passes_station2) = 1
    /\ Len(common_windows) = 2
    /\ common_windows[1].rise_time_utc # common_windows[2].rise_time_utc
    /\ common_windows[1].max_elevation_degrees
         < common_windows[2].max_elevation_degrees

\* C10: with an empty list on either side, or with no pair of passes whose
\* intervals meet, the returned list is empty.
C10_EmptyWhenNothingOverlaps ==
    ServiceReturned =>
        ((\/ passes_station1 = <<>>
          \/ passes_station2 = <<>>
          \/ OverlappingPairs = {}) => common_windows = <<>>)

\* both lists have passes, none of station 1 meets one of station 2
C10_Witness ==
    /\ ServiceReturned
    /\ Len(passes_station1) >= 1
    /\ Len(passes_station2) >= 2
    /\ OverlappingPairs = {}
    /\ common_windows = <<>>

----------------------------------------------------------------------------
(* find_passes *)

\* the timestamp of an instant, field by field
Stamp(t) == << t \div 86400, (t % 86400) \div 3600, (t % 3600) \div 60, t % 60 >>

\* the groups of three events at offsets 0, 3, 6, ...: group g holds the events
\* 3g+1, 3g+2, 3g+3 of the sequence (counted from 1)
CompleteGroups == 0..((Len(events) \div 3) - 1)
GroupTags(g) == << events[3 * g + 1], events[3 * g + 2], events[3 * g + 3] >>
RiseCulminateSet ==
    << SATELLITE_EVENT_RISE, SATELLITE_EVENT_CULMINATE, SATELLITE_EVENT_SET >>
PassGroups == { g \in CompleteGroups : GroupTags(g) = RiseCulminateSet }
GroupRank(g) == 1 + Cardinality({ h \in PassGroups : h < g })

\* C7: find_passes returns one Pass for every group of three events at an
\* offset 0, 3, 6, ... whose tags are RISE, CULMINATE, SET, built from the three
\* instants of that group, in the order of the groups, and nothing else: every
\* other group is skipped without an error and leaves no Pass.
C7_PassIffRiseCulminateSetGroup ==
    (FindPassesReturned /\ PropagatorAnswered) =>
        /\ raised = "none"
        /\ Len(passes) = Cardinality(PassGroups)
        /\ \A g \in PassGroups :
             LET p == passes[GroupRank(g)]
             IN  /\ p.rise_time_utc = Stamp(times[3 * g + 1])
                 /\ p.culmination_time_utc = Stamp(times[3 * g + 2])
                 /\ p.set_time_utc = Stamp(times[3 * g + 3])

\* a first group RISE, CULMINATE, CULMINATE is skipped and the second group,
\* a complete pass, is returned with its own three instants
C7_Witness ==
    /\ FindPassesReturned
    /\ Len(events) = 6
    /\ GroupTags(0) = << SATELLITE_EVENT_RISE, SATELLITE_EVENT_CULMINATE,
                         SATELLITE_EVENT_CULMINATE >>
    /\ GroupTags(1) = RiseCulminateSet
    /\ Len(passes) = 1
    /\ times[1] # times[4]
    /\ passes[1].rise_time_utc = Stamp(times[4])

\* C8: whatever the number n of events, find_passes evaluates no events[k]
\* with k >= n and raises no IndexError; it reads nothing of an incomplete
\* trailing group, and two events give no pass.
C8_NoIndexBeyondTheEvents ==
    FindPassesReturned =>
        /\ raised # "IndexError"
        /\ \A k \in reads : k >= 0 /\ k < Len(events)
        /\ \A k \in reads : k < 3 * (Len(events) \div 3)
        /\ (Len(events) = 2 => passes = <<>>)
        /\ (Len(events) < 3 => reads = {})

\* five events: one pass, then a RISE and a CULMINATE that stay unread
C8_Witness ==
    /\ FindPassesReturned
    /\ Len(events) = 5
    /\ Len(passes) = 1
    /\ events[4] = SATELLITE_EVENT_RISE
    /\ events[5] = SATELLITE_EVENT_CULMINATE
    /\ reads = {0, 1, 2}

\* C11: the propagator's events being in chronological order, every pass
\* find_passes returns has rise <= culmination <= set, as the timestamps of the
\* pass compare.
C11_RiseCulminationSetInOrder ==
    FindPassesReturned =>
        \A k \in 1..Len(passes) :
            /\ StrLE(passes[k].rise_time_utc, passes[k].culmination_time_utc)
            /\ StrLE(passes[k].culmination_time_utc, passes[k].set_time_utc)

\* a pass whose culmination is strictly before its set
C11_Witness ==
    /\ FindPassesReturned
    /\ \E k \in 1..Len(passes) :
         StrLess(passes[k].culmination_time_utc, passes[k].set_time_utc)

\* C12: find_passes returns the passes in chronological order: of two passes,
\* the one earlier in the list does not rise later.
C12_PassesInChronologicalOrder ==
    FindPassesReturned =>
        \A i \in 1..Len(passes), j \in 1..Len(passes) :
            i < j => StrLE(passes[i].rise_time_utc, passes[j].rise_time_utc)

\* two passes, the second rising strictly later than the first
C12_Witness ==
    /\ FindPassesReturned
    /\ Len(passes) = 2
    /\ StrLess(passes[1].rise_time_utc, passes[2].rise_time_utc)

\* C13: when a call to the propagator raises, while the elements are loaded,
\* the station is built, the events are searched or the altitude of a
\* culmination is queried, the caller of find_passes gets that exception and
\* no list, whatever the loop had collected.
C13_PropagatorFailureReachesTheCaller ==
    (FindPassesReturned /\ ~PropagatorAnswered) =>
        /\ raised = fault
        /\ passes = <<>>

\* altaz() raises at the second pass, after the first was collected
C13_Witness ==
    /\ FindPassesReturned
    /\ fault = "altaz"
    /\ Len(local_passes) = 1
    /\ raised = "altaz"
    /\ passes = <<>>

\* C15: the maximum elevation of every returned pass is the altitude reported
\* at its culmination, to the nearest hundredth of a degree, and is not more
\* than 0.01 degree below the threshold the passes were searched with.
C15_MaxElevationNotBelowThreshold ==
    FindPassesReturned =>
        /\ \A k \in 1..Len(passes) :
             passes[k].max_elevation_degrees * 10 >= min_el - 10
        /\ raised = "none" =>
             /\ Len(altitudes) = Len(passes)
             /\ \A k \in 1..Len(passes) :
                  LET d == passes[k].max_elevation_degrees * 10 - altitudes[k]
                  IN  d <= 5 /\ -d <= 5

\* a pass whose rounded maximum elevation is below the threshold
C15_Witness ==
    /\ FindPassesReturned
    /\ \E k \in 1..Len(passes) :
         /\ passes[k].max_elevation_degrees * 10 < min_el
         /\ altitudes[k] = min_el

\* C18: find_passes and find_common_windows write no log record, whether the
\* call succeeds or the propagator fails.
C18_CoreWritesNoLogRecord ==
    (FindPassesReturned \/ ServiceReturned) => log = <<>>

\* the fields of a window that refer back to the two passes it was built from
BackReferences ==
    {"station1_rise", "station1_set", "station1_max_el",
     "station2_rise", "station2_set", "station2_max_el"}

\* C14: every window of find_common_windows carries the rise, the set and the
\* maximum elevation of the station-1 pass and of the station-2 pass it was
\* built from: the six fields exist and are those of an overlapping pair
\* <<i, j>> that gives the window's rise, set and elevation.
C14_WindowRefersToItsPasses ==
    (ServiceReturned \/ TrackerReturned) =>
        LET ovl == OverlappingPairs
        IN  \A k \in 1..Len(common_windows) :
              LET w == common_windows[k]
              IN  /\ BackReferences \subseteq DOMAIN w
                  /\ \E ij \in ovl :
                       LET pA == passes_station1[ij[1]]
                           pB == passes_station2[ij[2]]
                       IN  /\ WindowTriple(w) = TripleOfPair(ij)
                           /\ w.station1_rise = pA.rise_time_utc
                           /\ w.station1_set = pA.set_time_utc
                           /\ w.station1_max_el = pA.max_elevation_degrees
                           /\ w.station2_rise = pB.rise_time_utc
                           /\ w.station2_set = pB.set_time_utc
                           /\ w.station2_max_el = pB.max_elevation_degrees

FindPassesReturnedAgain == op = "find_passes_again"

\* C16: a second call of find_passes with the same arguments, the propagator
\* answering as it did the first time, ends as the first call did: the same
\* list of passes, or the same exception.
C16_SecondCallGivesTheSameResult ==
    FindPassesReturnedAgain =>
        /\ passes = earlier.passes
        /\ raised = earlier.raised

\* both calls returned the same two passes
C16_Witness ==
    /\ FindPassesReturnedAgain
    /\ raised = "none"
    /\ Len(earlier.passes) = 2
    /\ Len(passes) = 2
    /\ passes[1] # passes[2]

\* what a request gets from find_passes alone when the propagator answers a:
\* one pass for a RISE, CULMINATE, SET group, stamped with the three instants
\* and with the reported altitude to the nearest hundredth, else no pass
AlonePasses(a) ==
    IF a.events = RiseCulminateSet
      THEN << [rise_time_utc |-> Stamp(a.times[1]),
               culmination_time_utc |-> Stamp(a.times[2]),
               set_time_utc |-> Stamp(a.times[3]),
               max_elevation_degrees |-> (a.altitudes[1] + 5) \div 10] >>
      ELSE <<>>

\* what a request gets from find_common_windows alone for two lists of at most
\* one pass: the triple of the pair when the two intervals meet, else nothing
AloneWindowTriples(A, B) ==
    IF A # <<>> /\ B # <<>> /\ IntervalsMeet(A[1], B[1])
      THEN << PairTriple(A[1], B[1]) >>
      ELSE <<>>

WindowTriples(ws) == [k \in 1..Len(ws) |-> WindowTriple(ws[k])]

\* C17: however the calls of two concurrent requests on one service object
\* interleave, each call returns to its request what it returns alone: the
\* passes of the request's own propagator answers, and the windows of the
\* request's own two lists.
C17_RequestsDoNotInterfere ==
    \A r \in Requests :
        LET q == requests[r]
        IN  /\ q.pc \in {"station2", "windows", "done"} =>
                 q.passes_gs1 = AlonePasses(q.found[1])
            /\ q.pc \in {"windows", "done"} =>
                 q.passes_gs2 = AlonePasses(q.found[2])
            /\ q.pc = "done" =>
                 WindowTriples(q.common_windows) =
                     AloneWindowTriples(AlonePasses(q.found[1]),
                                        AlonePasses(q.found[2]))

\* both requests are done, each with a window of its own, and each took a
\* step while the other was between its first and its last call
C17_Witness ==
    /\ \A r \in Requests :
         /\ requests[r].pc = "done"
         /\ requests[r].overlapped
         /\ Len(requests[r].common_windows) = 1
    /\ requests[1].common_windows # requests[2].common_windows

Formatted == op \in {"format_for_display", "app_format_for_display"}

\* the date and the hours and minutes of a timestamp, as a table row shows them
DateOf(str) == << str[1] >>
HoursMinutesOf(str) == << str[2], str[3] >>
FirstTwo(q) == << q[1], q[2] >>

\* row k of the table rows is numbered k and shows the date and the times of x
RowShows(rows, k, x, start, end) ==
    /\ rows[k].Nr = k
    /\ rows[k].Date = DateOf(x.rise_time_utc)
    /\ FirstTwo(start) = HoursMinutesOf(x.rise_time_utc)
    /\ FirstTwo(end) = HoursMinutesOf(x.set_time_utc)

\* record k of the timeline is in group g and spans x
RecordSpans(k, g, x) ==
    /\ timeline_data[k].group = g
    /\ timeline_data[k].start = x.rise_time_utc
    /\ timeline_data[k].end = x.set_time_utc

\* C19: the formatters of both DataFormatter classes map record by record, in
\* the order of the input and without dropping any: the tables have one row
\* for each pass or window, row k numbered k and showing record k; the
\* timeline has the station-1 passes under the first station's name, then the
\* station-2 passes under the second station's name, then the windows under
\* "Common", each spanning from the rise to the set of its record.
C19_FormattersKeepEveryRecordInOrder ==
    Formatted =>
        LET n1 == Len(passes_station1)
            n2 == Len(passes_station2)
            nw == Len(common_windows)
        IN  /\ Len(formatted_gs1) = n1
            /\ Len(formatted_gs2) = n2
            /\ Len(formatted_common) = nw
            /\ \A k \in 1..n1 :
                 RowShows(formatted_gs1, k, passes_station1[k],
                          formatted_gs1[k].Rise, formatted_gs1[k].Set)
            /\ \A k \in 1..n2 :
                 RowShows(formatted_gs2, k, passes_station2[k],
                          formatted_gs2[k].Rise, formatted_gs2[k].Set)
            /\ \A k \in 1..nw :
                 RowShows(formatted_common, k, common_windows[k],
                          formatted_common[k].Start, formatted_common[k].End)
            /\ Len(timeline_data) = n1 + n2 + nw
            /\ \A k \in 1..n1 : RecordSpans(k, STATION1_NAME, passes_station1[k])
            /\ \A k \in 1..n2 :
                 RecordSpans(n1 + k, STATION2_NAME, passes_station2[k])
            /\ \A k \in 1..nw : RecordSpans(n1 + n2 + k, "Common", common_windows[k])

\* two station-1 passes, the later one first, one station-2 pass that spans
\* both, and so two windows: five timeline records
C19_Witness ==
    /\ op = "format_for_display"
    /\ Len(passes_station1) = 2
    /\ Len(passes_station2) = 1
    /\ StrLess(passes_station1[2].rise_time_utc, passes_station1[1].rise_time_utc)
    /\ Len(common_windows) = 2
    /\ common_windows[1].rise_time_utc # passes_station2[1].rise_time_utc
    /\ Len(timeline_data) = 5
    /\ formatted_gs1[2].Nr = 2

TleHistoryReturned == op = "get_tle_history"

\* C20: get_tle_history(norad_id, days_back) asks Space-Track exactly once,
\* for (norad_id, days_back), and returns the list Space-Track answered with.
C20_AsksSpaceTrackOnceAndReturnsItsAnswer ==
    (TleHistoryReturned /\ ~spacetrack_answer.raised) =>
        /\ spacetrack_calls = << << NORAD_ID, days_back >> >>
        /\ tle_history = spacetrack_answer.history

\* C21: whenever authenticate() returns False the object has no session
\* afterwards, and _ensure_authenticated() never returns a session whose
\* verification did not succeed.
C21_NoSessionAfterFailedAuthentication ==
    /\ (spacetrack.op = "authenticate" /\ spacetrack.returned = "False") =>
          spacetrack.session = 0
    /\ (spacetrack.op = "ensure_authenticated"
          /\ spacetrack.returned = "session") =>
          spacetrack.session \in spacetrack.verified

\* the positions k at which three consecutive events are RISE, CULMINATE, SET
CompleteRuns ==
    { k \in 1..(Len(events) - 2) :
        << events[k], events[k + 1], events[k + 2] >> = RiseCulminateSet }

\* C22: every run of three consecutive events RISE, CULMINATE, SET of the
\* propagator's sequence, wherever it starts, gives a returned pass with the
\* three instants of the run.
C22_EveryCompletePassIsReturned ==
    (FindPassesReturned /\ PropagatorAnswered) =>
        \A k \in CompleteRuns :
            \E n \in 1..Len(passes) :
                /\ passes[n].rise_time_utc = Stamp(times[k])
                /\ passes[n].culmination_time_utc = Stamp(times[k + 1])
                /\ passes[n].set_time_utc = Stamp(times[k + 2])

\* C23: the input passes have rise <= set (every SatellitePass has); then every
\* window SatelliteService.find_common_windows returns has its common rise not
\* after its common set, and a duration_seconds that is not negative.
C23_WindowsAreWellFormedIntervals ==
    (/\ ServiceReturned
     /\ \A k \in 1..Len(passes_station1) :
           StrLE(passes_station1[k].rise_time_utc, passes_station1[k].set_time_utc)
     /\ \A k \in 1..Len(passes_station2) :
           StrLE(passes_station2[k].rise_time_utc, passes_station2[k].set_time_utc))
    => \A k \in 1..Len(common_windows) :
          /\ StrLE(common_windows[k].rise_time_utc, common_windows[k].set_time_utc)
          /\ common_windows[k].duration_seconds >= 0

\* the two passes overlap in part: the window rises with station 2 and sets
\* with station 1, and lasts; and a call returns a window of zero duration
C23_Witness ==
    /\ ServiceReturned
    /\ Len(passes_station1) = 1 /\ Len(passes_station2) = 1
    /\ Len(common_windows) = 1
    /\ StrLess(passes_station1[1].rise_time_utc, passes_station2[1].rise_time_utc)
    /\ StrLess(passes_station1[1].set_time_utc, passes_station2[1].set_time_utc)
    /\ common_windows[1].rise_time_utc = passes_station2[1].rise_time_utc
    /\ common_windows[1].set_time_utc = passes_station1[1].set_time_utc
    /\ common_windows[1].duration_seconds > 0

\* the passes of the list L do not meet: of any two, one sets before the other
\* rises
StrictlyDisjoint(L) ==
    \A i, j \in 1..Len(L) :
        i # j => \/ StrLess(L[i].set_time_utc, L[j].rise_time_utc)
                 \/ StrLess(L[j].set_time_utc, L[i].rise_time_utc)

\* the list L is chronological, each pass setting before the next one rises
ChronologicalAndDisjoint(L) ==
    \A k \in 1..(Len(L) - 1) :
        StrLess(L[k].set_time_utc, L[k + 1].rise_time_utc)

\* C25: when both input lists are chronological with each pass setting before
\* the next rises, the windows SatelliteService.find_common_windows returns are
\* in ascending order of common rise, though the method sorts nothing.
C25_ChronologicalInputsGiveAscendingWindows ==
    (/\ ServiceReturned
     /\ ChronologicalAndDisjoint(passes_station1)
     /\ ChronologicalAndDisjoint(passes_station2))
    => \A k \in 1..(Len(common_windows) - 1) :
          StrLE(common_windows[k].rise_time_utc,
                common_windows[k + 1].rise_time_utc)

\* two disjoint passes of station 1 in chronological order, each with a window
C25_Witness ==
    /\ ServiceReturned
    /\ Len(passes_station1) = 2
    /\ ChronologicalAndDisjoint(passes_station1)
    /\ ChronologicalAndDisjoint(passes_station2)
    /\ Len(common_windows) = 2
    /\ StrLess(common_windows[1].rise_time_utc, common_windows[2].rise_time_utc)

\* C26: when the passes of station 1 are strictly disjoint from each other and
\* those of station 2 likewise, the windows returned are pairwise disjoint in
\* time: no instant lies in two windows.
C26_WindowsArePairwiseDisjoint ==
    (/\ ServiceReturned
     /\ StrictlyDisjoint(passes_station1)
     /\ StrictlyDisjoint(passes_station2))
    => \A i, j \in 1..Len(common_windows) :
          i # j => \/ StrLess(common_windows[i].set_time_utc,
                              common_windows[j].rise_time_utc)
                   \/ StrLess(common_windows[j].set_time_utc,
                              common_windows[i].rise_time_utc)

\* one pass of station 1 spans two disjoint passes of station 2, given later
\* first: two windows
C26_Witness ==
    /\ ServiceReturned
    /\ Len(passes_station1) = 1
    /\ Len(passes_station2) = 2
    /\ StrictlyDisjoint(passes_station2)
    /\ StrLess(passes_station2[2].set_time_utc, passes_station2[1].rise_time_utc)
    /\ Len(common_windows) = 2

BothReturned == op = "both_find_common_windows"

\* the five fields the two find_common_windows have in common
WindowFields(w) ==
    << w.rise_time_utc, w.set_time_utc, w.max_elevation_degrees,
       w.duration_seconds, w.duration_str >>

\* C24: on the same two lists, SatelliteService.find_common_windows and
\* SatelliteTracker.find_common_windows return the same windows in the same
\* order: as many, and the k-th with the same rise, set, elevation summary,
\* duration_seconds and duration_str.
C24_ServiceAndTrackerReturnTheSameWindows ==
    BothReturned =>
        /\ Len(common_windows) = Len(tracker_windows)
        /\ \A k \in 1..Len(common_windows) :
              WindowFields(common_windows[k]) = WindowFields(tracker_windows[k])

\* C27: whatever the interleaving of the calls of save_tle_data, the table
\* tle_data never holds two rows with the same (norad_id, tle_line1,
\* tle_line2); and a call that finds its TLE stored returns True and adds no
\* row.
C27_NoDuplicateTleRows ==
    /\ \A i, j \in 1..Len(tle_data) :
          i # j => tle_data[i].tle # tle_data[j].tle
    /\ \A s \in Savers :
          (savers[s].pc = "done" /\ savers[s].existing # 0) =>
              /\ savers[s].returned = "True"
              /\ savers[s].tle_model = 0

\* the records of the set S no older than days, newest first
RECURSIVE Newest(_, _)
Newest(S, days) ==
    LET within == { a \in S : a <= days }
    IN  IF within = {} THEN <<>>
        ELSE LET a == CHOOSE x \in within : \A y \in within : x <= y
             IN  << a >> \o Newest(within \ {a}, days)

\* C28: when the fetch from Space-Track raises inside get_tle_history, the
\* call does not raise: it returns the history the database held for the
\* period before the fetch (the empty list when it held none), and the
\* database is as it was.
C28_FetchFailureFallsBackToTheDatabase ==
    (TleHistoryReturned /\ spacetrack_calls # <<>> /\ spacetrack_answer.raised) =>
        /\ tle_raised = "none"
        /\ tle_history = Newest(stored, days_back)
        /\ database = stored

\* the fetch raised while the database held one record of the period and one
\* older record: the one record is returned
C28_Witness ==
    /\ TleHistoryReturned
    /\ spacetrack_calls # <<>>
    /\ spacetrack_answer.raised
    /\ days_back = 2
    /\ stored = {1, 45}
    /\ tle_history = << 1 >>

\* the <<task position, subtask position>> of every subtask of the store
SubtaskPlaces ==
    { tu \in (1..Len(todo.tasks)) \X (1..(MaxTodoCalls + MaxTodoId)) :
        tu[2] <= Len(todo.tasks[tu[1]].subtasks) }

\* C29: after any sequence of TodoService operations on a store whose ids were
\* unique, no two tasks have the same id and no two subtasks, of the same task
\* or of different tasks, have the same id.
C29_TodoIdsStayUnique ==
    /\ \A i, j \in 1..Len(todo.tasks) :
          i # j => todo.tasks[i].id # todo.tasks[j].id
    /\ \A p, q \in SubtaskPlaces :
          p # q => todo.tasks[p[1]].subtasks[p[2]].id
                     # todo.tasks[q[1]].subtasks[q[2]].id

\* add_subtask gave the first task a second subtask while another task has a
\* subtask of its own
C29_Witness ==
    /\ todo.op = "add_subtask"
    /\ todo.returned = "True"
    /\ Len(todo.tasks) = 2
    /\ Len(todo.tasks[1].subtasks) = 2
    /\ Len(todo.tasks[2].subtasks) = 1

\* the operations that return False for an id that does not exist
LookupOperations ==
    {"add_subtask", "toggle_subtask_completion", "delete_task",
     "delete_subtask", "edit_subtask"}
SubtaskOperations ==
    {"toggle_subtask_completion", "delete_subtask", "edit_subtask"}

\* no task of the list has the id; no subtask of the task with the id has
\* the subtask id
NoSuchTask(tasks, task_id) ==
    \A k \in 1..Len(tasks) : tasks[k].id # task_id
NoSuchSubtask(tasks, task_id, subtask_id) ==
    \A k \in 1..Len(tasks) :
        tasks[k].id = task_id =>
            \A h \in 1..Len(tasks[k].subtasks) :
                tasks[k].subtasks[h].id # subtask_id

\* C30: a call of add_subtask, toggle_subtask_completion, delete_task,
\* delete_subtask or edit_subtask that names a task id no task has, or a
\* subtask id no subtask of that task has, returns False, leaves the list of
\* tasks as it was and does not write the file.
C30_MissingIdChangesNothing ==
    [][ (/\ todo'.calls = todo.calls + 1
         /\ todo'.op \in LookupOperations
         /\ \/ NoSuchTask(todo.tasks, todo'.task_id)
            \/ /\ todo'.op \in SubtaskOperations
               /\ NoSuchSubtask(todo.tasks, todo'.task_id, todo'.subtask_id))
        => /\ todo'.returned = "False"
           /\ todo'.tasks = todo.tasks
           /\ todo'.data_file = todo.data_file
           /\ todo'.save_calls = todo.save_calls ]_vars

\* toggle_subtask_completion named a task of the store and a subtask id that
\* only another task has, after a call that wrote the file
C30_Witness ==
    /\ todo.op = "toggle_subtask_completion"
    /\ todo.returned = "False"
    /\ todo.save_calls = 1
    /\ ~NoSuchTask(todo.tasks, todo.task_id)
    /\ NoSuchSubtask(todo.tasks, todo.task_id, todo.subtask_id)
    /\ \E k \in 1..Len(todo.tasks) :
          \E h \in 1..Len(todo.tasks[k].subtasks) :
              todo.tasks[k].subtasks[h].id = todo.subtask_id
====
